---- MODULE Spec2Model ----
(***************************************************************************)
(* Model of lib/tardis-driver-native/lib/commands/execute.js: the Execute  *)
(* mixin (execute, executeAsync, asyncScriptTimeout, waitFor, thenLocal    *)
(* and their result callbacks) together with the runner that drains the    *)
(* action queue, the remote webdriver client and the JavaScript timer;     *)
(* and of the command line bootstrapper loadDalek of the same file.        *)
(***************************************************************************)
EXTENDS Integers, Sequences, FiniteSets

(* ---------------------------- bounds ----------------------------------- *)

\* number of public calls made on the driver object
MaxCalls == 2
\* number of times the checker of one waitFor callback re-issues the remote call
MaxPolls == 1
\* length of the value of a command line flag, in characters
MaxFlagLen == 3

Calls == 1..MaxCalls

(* ---------------------------- inputs ----------------------------------- *)

Scripts  == {"function(){}"}
ArgLists == {"[]"}
Hashes   == {"h1", "h2"}
\* waitFor timeouts, in ms
Timeouts == {0, 1000}
\* asyncScriptTimeout timeouts, in ms
ScriptTimeouts == {30000}
\* user functions handed to thenLocal, named by what they do with the
\* completion callback they are given: call it before returning, or keep it
\* (and call it later, or never)
Funcs    == {"callsNow", "keepsCallback"}

\* the object the mixin methods are called on
Driver == "DalekNative"

(* ------------------ JSON results of the remote client ------------------ *)

\* the parsed `value` of a result: null, or an object whose userRet and
\* message properties are present or absent ("undefined")
NullValue == [type |-> "null", userRet |-> "undefined", message |-> "undefined"]
ObjValue(ur, msg) == [type |-> "object", userRet |-> ur, message |-> msg]
\* userRet: true, false, a truthy non-boolean (absent: "undefined")
UserRets == {"true", "false", "1"}
\* the status of a successful result
Success == 0
\* some nonzero status
Failure == Success + 13
\* a success carries what the script returned (possibly nothing); a failure
\* carries an object with a message, or no value at all
Results ==
  {[status |-> Success, value |-> ObjValue(ur, "undefined")] : ur \in UserRets}
    \cup {[status |-> Success, value |-> NullValue],
          [status |-> Failure, value |-> ObjValue("undefined", "err")],
          [status |-> Failure, value |-> NullValue]}
\* what a step receives when its predecessor resolved with no value
Undefined == [status |-> -1, value |-> [type |-> "undefined", userRet |-> "undefined", message |-> "undefined"]]

\* reading a property of null is a TypeError
Throws(v) == v.type = "null"

\* the result's value is an object whose userRet is the boolean true
ExactlyTrue(data) == data.value.type = "object" /\ data.value.userRet = "true"

(* ----------------------- command line values --------------------------- *)

\* flag values are strings, modelled as sequences of characters
ViewportChars == {"1", "2", "x", ","}
ListChars == {"a", "b", ","}
Strings(chars) == UNION {[1..m -> chars] : m \in 0..MaxFlagLen}

\* a flag of argv: not given (undefined), or given with a string value
Absent == [given |-> FALSE, str |-> <<>>]
Given(str) == [given |-> TRUE, str |-> str]
Flags(chars) == {Absent} \cup {Given(str) : str \in Strings(chars)}
\* undefined and the empty string are falsy
Truthy(flag) == flag.given /\ flag.str # <<>>

Argvs ==
  [version : BOOLEAN, help : BOOLEAN,
   viewport : Flags(ViewportChars),
   driver : Flags(ListChars),
   reporter : {Absent, Given(<<"b", ",", "a">>)},
   browser : {Absent, Given(<<"a">>)}]
NoArgs ==
  [version |-> FALSE, help |-> FALSE, viewport |-> Absent, driver |-> Absent,
   reporter |-> Absent, browser |-> Absent]

\* a number, or NaN
NaN == [nan |-> TRUE, n |-> 0]
Num(n) == [nan |-> FALSE, n |-> n]
\* the objects {} and {width: w, height: h}
EmptyObject == [keys |-> {}, width |-> 0, height |-> 0]
Dimensions(w, h) == [keys |-> {"width", "height"}, width |-> w, height |-> h]

\* the state of loadDalek before the arguments are checked
CliStart(argv) ==
  [pc |-> "start", argv |-> argv, viewportOption |-> EmptyObject,
   config |-> [driver |-> <<>>, reporter |-> <<>>, browser |-> <<>>,
               viewport |-> EmptyObject],
   constructed |-> 0, runs |-> 0]

(* ----------------------------- state ----------------------------------- *)

VARIABLES
  cli,          \* the command line bootstrapper (loadDalek)
  actionQueue,  \* this.actionQueue: sequence of bound functions
  ncalls,       \* number of public calls made so far
  called,       \* the public calls made, in order: method and correlation id
  returned,     \* what the last public call returned
  head,         \* runner: index of the step being run / to run next
  runner,       \* runner: "ready" | "awaitRemote" | "awaitStep" | "rejected"
  lastResult,   \* runner: value the previous step resolved with
  inflight,     \* remote calls issued and not yet answered
  timeoutId,    \* per call: the timeoutId variable of _waitForCb
  timer,        \* per call: the JavaScript timer
  deferred,     \* per call: the deferred made by its callback
  polls,        \* per call: remote execute calls issued by _waitForCb and its checker
  messages,     \* driver:message events emitted, in order
  thrown,       \* calls whose callback raised a TypeError
  funcCalls,    \* per call: times the thenLocal user function was invoked
  doneCalls,    \* per call: times the user function called its callback
  held,         \* per call: the user function still holds its callback
  first,        \* per call: the first result handed to _waitForCb:
                \*   "none" (not run) | "true" | "notTrue" | "null"
  pollTrue      \* per call: the checker was handed a result with userRet true

vars == <<cli, actionQueue, ncalls, called, returned, head, runner, lastResult, inflight,
          timeoutId, timer, deferred, polls, messages, thrown, funcCalls,
          doneCalls, held, first, pollTrue>>

runnerVars == <<head, runner, lastResult>>
driverVars == <<actionQueue, ncalls, called, returned, head, runner, lastResult, inflight,
                timeoutId, timer, deferred, polls, messages, thrown, funcCalls,
                doneCalls, held, first, pollTrue>>
effectVars == <<inflight, timeoutId, timer, deferred, polls, messages, thrown,
                funcCalls, doneCalls, held, first, pollTrue>>

DriverInit ==
  /\ actionQueue = <<>>
  /\ ncalls = 0
  /\ called = <<>>
  /\ returned = "none"
  /\ head = 1
  /\ runner = "ready"
  /\ lastResult = Undefined
  /\ inflight = {}
  /\ timeoutId = [k \in Calls |-> "undefined"]
  /\ timer = [k \in Calls |-> "unset"]
  /\ deferred = [k \in Calls |-> "none"]
  /\ polls = [k \in Calls |-> 0]
  /\ messages = <<>>
  /\ thrown = {}
  /\ funcCalls = [k \in Calls |-> 0]
  /\ doneCalls = [k \in Calls |-> 0]
  /\ held = [k \in Calls |-> FALSE]
  /\ first = [k \in Calls |-> "none"]
  /\ pollTrue = [k \in Calls |-> FALSE]

Init ==
  /\ cli = CliStart(NoArgs)
  /\ DriverInit

(* ------------------------- queued steps -------------------------------- *)

\* fn.bind(this.webdriverClient, ...): a bound remote call
RemoteStep(method, arg, k) ==
  [kind |-> "remote", fn |-> method, bound |-> arg, call |-> k]
\* this._xxxCb.bind(this, ...): a bound result callback
CbStep(method, arg, k) ==
  [kind |-> "cb", fn |-> method, bound |-> arg, call |-> k]

Payload(script, args) == [script |-> script, arguments |-> args]

(* ------------------------- public methods ------------------------------ *)

execute(script, args, hash) ==
  /\ ncalls < MaxCalls
  /\ LET k == ncalls + 1 IN
       actionQueue' = Append(Append(actionQueue,
           RemoteStep("execute", Payload(script, args), k)),
           CbStep("_setExecuteCb", [script |-> script, args |-> args, hash |-> hash], k))
  /\ ncalls' = ncalls + 1
  /\ called' = Append(called, [op |-> "execute", hash |-> hash])
  /\ returned' = Driver
  /\ UNCHANGED <<cli, runnerVars, effectVars>>

\* executeAsync calling the remote operation at once instead of binding it
executeAsync_callsRemote(script, args, hash) ==
  /\ ncalls < MaxCalls
  /\ LET k == ncalls + 1 IN
       /\ actionQueue' = Append(Append(actionQueue,
             RemoteStep("executeAsync", Payload(script, args), k)),
             CbStep("_setExecuteAsyncCb", [script |-> script, args |-> args, hash |-> hash], k))
       /\ inflight' = inflight \cup {[call |-> k, origin |-> "queue", fn |-> "executeAsync"]}
  /\ ncalls' = ncalls + 1
  /\ called' = Append(called, [op |-> "executeAsync", hash |-> hash])
  /\ returned' = Driver
  /\ UNCHANGED <<cli, runnerVars, timeoutId, timer, deferred, polls, messages, thrown,
                 funcCalls, doneCalls, held, first, pollTrue>>

executeAsync(script, args, hash) ==
  /\ ncalls < MaxCalls
  /\ LET k == ncalls + 1 IN
       actionQueue' = Append(Append(actionQueue,
           RemoteStep("executeAsync", Payload(script, args), k)),
           CbStep("_setExecuteAsyncCb", [script |-> script, args |-> args, hash |-> hash], k))
  /\ ncalls' = ncalls + 1
  /\ called' = Append(called, [op |-> "executeAsync", hash |-> hash])
  /\ returned' = Driver
  /\ UNCHANGED <<cli, runnerVars, effectVars>>

asyncScriptTimeout(timeout, hash) ==
  /\ ncalls < MaxCalls
  /\ LET k == ncalls + 1 IN
       actionQueue' = Append(Append(actionQueue,
           RemoteStep("asyncScript", [timeout |-> timeout], k)),
           CbStep("_setAsyncScriptTimeoutCb", [timeout |-> timeout, hash |-> hash], k))
  /\ ncalls' = ncalls + 1
  /\ called' = Append(called, [op |-> "asyncScriptTimeout", hash |-> hash])
  /\ returned' = Driver
  /\ UNCHANGED <<cli, runnerVars, effectVars>>

\* waitFor pushing its result callback before the remote call
waitFor_callbackFirst(script, args, timeout, hash) ==
  /\ ncalls < MaxCalls
  /\ LET k == ncalls + 1 IN
       actionQueue' = Append(Append(actionQueue,
           CbStep("_waitForCb", [script |-> script, args |-> args,
                                 timeout |-> timeout, hash |-> hash], k)),
           RemoteStep("execute", Payload(script, args), k))
  /\ ncalls' = ncalls + 1
  /\ called' = Append(called, [op |-> "waitFor", hash |-> hash])
  /\ returned' = Driver
  /\ UNCHANGED <<cli, runnerVars, effectVars>>

waitFor(script, args, timeout, hash) ==
  /\ ncalls < MaxCalls
  /\ LET k == ncalls + 1 IN
       actionQueue' = Append(Append(actionQueue,
           RemoteStep("execute", Payload(script, args), k)),
           CbStep("_waitForCb", [script |-> script, args |-> args,
                                 timeout |-> timeout, hash |-> hash], k))
  /\ ncalls' = ncalls + 1
  /\ called' = Append(called, [op |-> "waitFor", hash |-> hash])
  /\ returned' = Driver
  /\ UNCHANGED <<cli, runnerVars, effectVars>>

thenLocal(func, hash) ==
  /\ ncalls < MaxCalls
  /\ LET k == ncalls + 1 IN
       actionQueue' = Append(actionQueue,
           CbStep("_setThenLocalCb", [func |-> func, hash |-> hash], k))
  /\ ncalls' = ncalls + 1
  /\ called' = Append(called, [op |-> "thenLocal", hash |-> hash])
  /\ returned' = Driver
  /\ UNCHANGED <<cli, runnerVars, effectVars>>

(* ------------------------------ helpers -------------------------------- *)

\* this.events.emit('driver:message', msg), from the callback of call k
emit(msg, k) == messages' = Append(messages, [msg |-> msg, call |-> k])

\* the step the runner is at, when there is one it has not started
Ready == runner = "ready" /\ head <= Len(actionQueue)
Current == actionQueue[head]

PollOf(k) == [call |-> k, origin |-> "poll", fn |-> "execute"]

\* x.value.userRet == true: the loose comparison, which 1 passes
userRetLooselyTrue(v) == v.userRet \in {"true", "1"}

\* x.value.userRet === true
userRetIsTrue(v) == v.userRet = "true"

\* clearWaitForTimeout() forgetting the clearTimeout call
clearWaitForTimeout_keepsTimer(tid, tm) ==
  IF tid = "handle"
    THEN [timeoutId |-> "null", timer |-> tm]
    ELSE [timeoutId |-> tid, timer |-> tm]

\* clearWaitForTimeout(): given the timeoutId variable and the timer's state,
\* their values after the call
clearWaitForTimeout(tid, tm) ==
  IF tid = "handle"
    THEN [timeoutId |-> "null", timer |-> IF tm = "armed" THEN "cleared" ELSE tm]
    ELSE [timeoutId |-> tid, timer |-> tm]

(* ------------------------------ runner --------------------------------- *)

\* the runner invokes the bound remote call at the head of the queue
RunRemote ==
  /\ Ready
  /\ Current.kind = "remote"
  /\ inflight' = inflight \cup {[call |-> Current.call, origin |-> "queue", fn |-> Current.fn]}
  /\ runner' = "awaitRemote"
  /\ UNCHANGED <<cli, actionQueue, ncalls, called, returned, head, lastResult, timeoutId, timer,
                 deferred, polls, messages, thrown, funcCalls, doneCalls, held, first, pollTrue>>

\* the remote client answers the runner's call; the runner hands the
\* serialized result to the next step
RemoteResponds(data) ==
  /\ runner = "awaitRemote"
  /\ \E req \in inflight :
       /\ req.origin = "queue"
       /\ inflight' = inflight \ {req}
  /\ lastResult' = data
  /\ head' = head + 1
  /\ runner' = "ready"
  /\ UNCHANGED <<cli, actionQueue, ncalls, called, returned, timeoutId, timer,
                 deferred, polls, messages, thrown, funcCalls, doneCalls, held, first, pollTrue>>

\* the promise of the callback step at the head resolved: on to the next step
Advance ==
  /\ runner = "awaitStep"
  /\ deferred[Current.call] = "resolved"
  /\ head' = head + 1
  /\ runner' = "ready"
  /\ lastResult' = Undefined
  /\ UNCHANGED <<cli, actionQueue, ncalls, called, returned, effectVars>>

(* --------------------------- result callbacks -------------------------- *)

\* _setExecuteCb telling failure from success as _setExecuteAsyncCb does
_setExecuteCb_checksStatus(script, args, hash, data) ==
  /\ Ready
  /\ Current.kind = "cb"
  /\ Current.fn = "_setExecuteCb"
  /\ Current.bound = [script |-> script, args |-> args, hash |-> hash]
  /\ data = lastResult
  /\ LET k == Current.call IN
       /\ IF data.status = Success
            THEN emit([key |-> "execute", value |-> data.value, uuid |-> hash, hash |-> hash], k)
            ELSE emit([key |-> "execute", errorMessage |-> data.value.message,
                       uuid |-> hash, hash |-> hash], k)
       /\ deferred' = [deferred EXCEPT ![k] = "resolved"]
  /\ runner' = "awaitStep"
  /\ UNCHANGED <<cli, actionQueue, ncalls, called, returned, head, lastResult, inflight, timeoutId,
                 timer, polls, thrown, funcCalls, doneCalls, held, first, pollTrue>>

_setExecuteCb(script, args, hash, data) ==
  /\ Ready
  /\ Current.kind = "cb"
  /\ Current.fn = "_setExecuteCb"
  /\ Current.bound = [script |-> script, args |-> args, hash |-> hash]
  /\ data = lastResult
  /\ LET k == Current.call IN
       /\ emit([key |-> "execute", value |-> data.value, uuid |-> hash, hash |-> hash], k)
       /\ deferred' = [deferred EXCEPT ![k] = "resolved"]
  /\ runner' = "awaitStep"
  /\ UNCHANGED <<cli, actionQueue, ncalls, called, returned, head, lastResult, inflight, timeoutId,
                 timer, polls, thrown, funcCalls, doneCalls, held, first, pollTrue>>

_setExecuteAsyncCb(script, args, hash, data) ==
  /\ Ready
  /\ Current.kind = "cb"
  /\ Current.fn = "_setExecuteAsyncCb"
  /\ Current.bound = [script |-> script, args |-> args, hash |-> hash]
  /\ data = lastResult
  /\ LET k == Current.call
         dataObj == data
     IN
       IF dataObj.status = Success
            THEN /\ emit([key |-> "executeAsync", value |-> dataObj.value,
                          uuid |-> hash, hash |-> hash], k)
                 /\ deferred' = [deferred EXCEPT ![k] = "resolved"]
                 /\ runner' = "awaitStep"
                 /\ UNCHANGED thrown
            ELSE IF Throws(dataObj.value)
              THEN \* dataObj.value.message on a null value: TypeError
                   /\ thrown' = thrown \cup {k}
                   /\ deferred' = [deferred EXCEPT ![k] = "pending"]
                   /\ runner' = "rejected"
                   /\ UNCHANGED messages
              ELSE /\ emit([key |-> "executeAsync", errorMessage |-> dataObj.value.message,
                            uuid |-> hash, hash |-> hash], k)
                   /\ deferred' = [deferred EXCEPT ![k] = "resolved"]
                   /\ runner' = "awaitStep"
                   /\ UNCHANGED thrown
  /\ UNCHANGED <<cli, actionQueue, ncalls, called, returned, head, lastResult, inflight, timeoutId,
                 timer, polls, funcCalls, doneCalls, held, first, pollTrue>>

_setAsyncScriptTimeoutCb(timeout, hash) ==
  /\ Ready
  /\ Current.kind = "cb"
  /\ Current.fn = "_setAsyncScriptTimeoutCb"
  /\ Current.bound = [timeout |-> timeout, hash |-> hash]
  /\ LET k == Current.call IN
       /\ emit([key |-> "asyncScriptTimeout", value |-> "", uuid |-> hash, hash |-> hash], k)
       /\ deferred' = [deferred EXCEPT ![k] = "resolved"]
  /\ runner' = "awaitStep"
  /\ UNCHANGED <<cli, actionQueue, ncalls, called, returned, head, lastResult, inflight, timeoutId,
                 timer, polls, thrown, funcCalls, doneCalls, held, first, pollTrue>>

_waitForCb(script, args, timeout, hash, data) ==
  /\ Ready
  /\ Current.kind = "cb"
  /\ Current.fn = "_waitForCb"
  /\ Current.bound = [script |-> script, args |-> args, timeout |-> timeout, hash |-> hash]
  /\ data = lastResult
  /\ LET k == Current.call
         ret == data
         \* timeoutId = setTimeout(..., timeout)
         set == [timeoutId |-> "handle", timer |-> "armed"]
     IN
       /\ first' = [first EXCEPT ![k] =
                      IF data.value.type = "null" THEN "null"
                      ELSE IF ExactlyTrue(data) THEN "true" ELSE "notTrue"]
       /\ IF Throws(ret.value)
            THEN \* ret.value.userRet on a null value: TypeError, timer running
                 /\ thrown' = thrown \cup {k}
                 /\ timeoutId' = [timeoutId EXCEPT ![k] = set.timeoutId]
                 /\ timer' = [timer EXCEPT ![k] = set.timer]
                 /\ deferred' = [deferred EXCEPT ![k] = "pending"]
                 /\ runner' = "rejected"
                 /\ UNCHANGED <<messages, inflight, polls>>
            ELSE IF userRetIsTrue(ret.value)
              THEN /\ emit([key |-> "waitFor", value |-> "", uuid |-> hash, hash |-> hash], k)
                   /\ LET c == clearWaitForTimeout(set.timeoutId, set.timer) IN
                        /\ timeoutId' = [timeoutId EXCEPT ![k] = c.timeoutId]
                        /\ timer' = [timer EXCEPT ![k] = c.timer]
                   /\ deferred' = [deferred EXCEPT ![k] = "resolved"]
                   /\ runner' = "awaitStep"
                   /\ UNCHANGED <<thrown, inflight, polls>>
              ELSE \* Q.when(this.webdriverClient.execute(...)).then(checker)
                   /\ inflight' = inflight \cup {PollOf(k)}
                   /\ polls' = [polls EXCEPT ![k] = @ + 1]
                   /\ timeoutId' = [timeoutId EXCEPT ![k] = set.timeoutId]
                   /\ timer' = [timer EXCEPT ![k] = set.timer]
                   /\ deferred' = [deferred EXCEPT ![k] = "pending"]
                   /\ runner' = "awaitStep"
                   /\ UNCHANGED <<thrown, messages>>
  /\ UNCHANGED <<cli, actionQueue, ncalls, called, returned, head, lastResult, funcCalls, doneCalls,
                 held, pollTrue>>

\* the place in the queue of the callback step of call k
CbIndex(k) ==
  CHOOSE j \in 1..Len(actionQueue) : actionQueue[j].call = k /\ actionQueue[j].kind = "cb"

\* the hash kept in one place shared by all calls: that of the latest call
HashOf_latest(k) == actionQueue[Len(actionQueue)].bound.hash

\* the hash bound by the callback step of call k
HashOf(k) == actionQueue[CbIndex(k)].bound.hash

\* checker re-issuing the remote call also after a result with userRet true
checker_keepsPolling(k, yData) ==
  /\ PollOf(k) \in inflight
  /\ pollTrue' = [pollTrue EXCEPT ![k] = IF ExactlyTrue(yData) THEN TRUE ELSE @]
  /\ LET hash == HashOf(k) IN
       IF Throws(yData.value)
         THEN \* TypeError inside the then-handler: the chain ends rejected
              /\ thrown' = thrown \cup {k}
              /\ inflight' = inflight \ {PollOf(k)}
              /\ UNCHANGED <<messages, timeoutId, timer, deferred, polls>>
         ELSE IF userRetIsTrue(yData.value)
           THEN /\ emit([key |-> "waitFor", value |-> "", uuid |-> hash, hash |-> hash], k)
                /\ LET c == clearWaitForTimeout(timeoutId[k], timer[k]) IN
                     /\ timeoutId' = [timeoutId EXCEPT ![k] = c.timeoutId]
                     /\ timer' = [timer EXCEPT ![k] = c.timer]
                /\ deferred' = [deferred EXCEPT ![k] = "resolved"]
                /\ polls[k] <= MaxPolls
                /\ inflight' = (inflight \ {PollOf(k)}) \cup {PollOf(k)}
                /\ polls' = [polls EXCEPT ![k] = @ + 1]
                /\ UNCHANGED thrown
           ELSE /\ polls[k] <= MaxPolls
                /\ inflight' = (inflight \ {PollOf(k)}) \cup {PollOf(k)}
                /\ polls' = [polls EXCEPT ![k] = @ + 1]
                /\ UNCHANGED <<thrown, messages, timeoutId, timer, deferred>>
  /\ UNCHANGED <<cli, actionQueue, ncalls, called, returned, runnerVars, funcCalls, doneCalls, held, first>>

\* checker of the _waitForCb invocation of call k, handed a poll's result
checker(k, yData) ==
  /\ PollOf(k) \in inflight
  /\ pollTrue' = [pollTrue EXCEPT ![k] = IF ExactlyTrue(yData) THEN TRUE ELSE @]
  /\ LET hash == HashOf(k) IN
       IF Throws(yData.value)
         THEN \* TypeError inside the then-handler: the chain ends rejected
              /\ thrown' = thrown \cup {k}
              /\ inflight' = inflight \ {PollOf(k)}
              /\ UNCHANGED <<messages, timeoutId, timer, deferred, polls>>
         ELSE IF userRetIsTrue(yData.value)
           THEN /\ emit([key |-> "waitFor", value |-> "", uuid |-> hash, hash |-> hash], k)
                /\ LET c == clearWaitForTimeout(timeoutId[k], timer[k]) IN
                     /\ timeoutId' = [timeoutId EXCEPT ![k] = c.timeoutId]
                     /\ timer' = [timer EXCEPT ![k] = c.timer]
                /\ deferred' = [deferred EXCEPT ![k] = "resolved"]
                /\ inflight' = inflight \ {PollOf(k)}
                /\ UNCHANGED <<thrown, polls>>
           ELSE /\ polls[k] <= MaxPolls
                /\ inflight' = (inflight \ {PollOf(k)}) \cup {PollOf(k)}
                /\ polls' = [polls EXCEPT ![k] = @ + 1]
                /\ UNCHANGED <<thrown, messages, timeoutId, timer, deferred>>
  /\ UNCHANGED <<cli, actionQueue, ncalls, called, returned, runnerVars, funcCalls, doneCalls, held, first>>

\* the function handed to setTimeout by the _waitForCb invocation of call k
timeoutCb(k) ==
  /\ timer[k] = "armed"
  /\ LET hash == HashOf(k) IN
       emit([key |-> "waitFor", value |-> "Interrupted by timeout",
             uuid |-> hash, hash |-> hash], k)
  /\ LET c == clearWaitForTimeout(timeoutId[k], "fired") IN
       /\ timeoutId' = [timeoutId EXCEPT ![k] = c.timeoutId]
       /\ timer' = [timer EXCEPT ![k] = c.timer]
  /\ deferred' = [deferred EXCEPT ![k] = "resolved"]
  /\ UNCHANGED <<cli, actionQueue, ncalls, called, returned, runnerVars, inflight, polls, thrown,
                 funcCalls, doneCalls, held, first, pollTrue>>

\* _setThenLocalCb resolving its deferred itself, as the other callbacks do
_setThenLocalCb_resolves(func, hash) ==
  /\ Ready
  /\ Current.kind = "cb"
  /\ Current.fn = "_setThenLocalCb"
  /\ Current.bound = [func |-> func, hash |-> hash]
  /\ LET k == Current.call IN
       /\ funcCalls' = [funcCalls EXCEPT ![k] = @ + 1]
       /\ deferred' = [deferred EXCEPT ![k] = "resolved"]
       /\ IF func = "callsNow"
            THEN /\ doneCalls' = [doneCalls EXCEPT ![k] = @ + 1]
                 /\ UNCHANGED held
            ELSE /\ held' = [held EXCEPT ![k] = (func = "keepsCallback")]
                 /\ UNCHANGED doneCalls
  /\ runner' = "awaitStep"
  /\ UNCHANGED <<cli, actionQueue, ncalls, called, returned, head, lastResult, inflight, timeoutId,
                 timer, polls, messages, thrown, first, pollTrue>>

_setThenLocalCb(func, hash) ==
  /\ Ready
  /\ Current.kind = "cb"
  /\ Current.fn = "_setThenLocalCb"
  /\ Current.bound = [func |-> func, hash |-> hash]
  /\ LET k == Current.call IN
       /\ funcCalls' = [funcCalls EXCEPT ![k] = @ + 1]
       /\ IF func = "callsNow"
            THEN /\ doneCalls' = [doneCalls EXCEPT ![k] = @ + 1]
                 /\ deferred' = [deferred EXCEPT ![k] = "resolved"]
                 /\ UNCHANGED held
            ELSE /\ deferred' = [deferred EXCEPT ![k] = "pending"]
                 /\ held' = [held EXCEPT ![k] = (func = "keepsCallback")]
                 /\ UNCHANGED doneCalls
  /\ runner' = "awaitStep"
  /\ UNCHANGED <<cli, actionQueue, ncalls, called, returned, head, lastResult, inflight, timeoutId,
                 timer, polls, messages, thrown, first, pollTrue>>

\* the user function of call k calls the completion callback it was given
doneCb(k) ==
  /\ held[k]
  /\ held' = [held EXCEPT ![k] = FALSE]
  /\ doneCalls' = [doneCalls EXCEPT ![k] = @ + 1]
  /\ deferred' = [deferred EXCEPT ![k] = "resolved"]
  /\ UNCHANGED <<cli, actionQueue, ncalls, called, returned, runnerVars, inflight, timeoutId, timer,
                 polls, messages, thrown, funcCalls, first, pollTrue>>

(* --------------------------- specification ----------------------------- *)

Next ==
  \/ \E s \in Scripts, a \in ArgLists, h \in Hashes : execute(s, a, h)
  \/ \E s \in Scripts, a \in ArgLists, h \in Hashes : executeAsync(s, a, h)
  \/ \E t \in ScriptTimeouts, h \in Hashes : asyncScriptTimeout(t, h)
  \/ \E s \in Scripts, a \in ArgLists, t \in Timeouts, h \in Hashes : waitFor(s, a, t, h)
  \/ \E f \in Funcs, h \in Hashes : thenLocal(f, h)
  \/ RunRemote
  \/ \E d \in Results : RemoteResponds(d)
  \/ Advance
  \/ \E s \in Scripts, a \in ArgLists, h \in Hashes, d \in Results : _setExecuteCb(s, a, h, d)
  \/ \E s \in Scripts, a \in ArgLists, h \in Hashes, d \in Results : _setExecuteAsyncCb(s, a, h, d)
  \/ \E t \in ScriptTimeouts, h \in Hashes : _setAsyncScriptTimeoutCb(t, h)
  \/ \E s \in Scripts, a \in ArgLists, t \in Timeouts, h \in Hashes, d \in Results :
       _waitForCb(s, a, t, h, d)
  \/ \E k \in Calls, d \in Results : checker(k, d)
  \/ \E k \in Calls : timeoutCb(k)
  \/ \E f \in Funcs, h \in Hashes : _setThenLocalCb(f, h)
  \/ \E k \in Calls : doneCb(k)

Spec == Init /\ [][Next]_vars

\* timers fire and resolved promises run their continuations
FairSpec ==
  /\ Spec
  /\ \A k \in Calls : WF_vars(timeoutCb(k))
  /\ WF_vars(Advance)

(* ------------------------ command line: loadDalek ---------------------- *)

IndexOf(str, c) == CHOOSE i \in 1..Len(str) : str[i] = c /\ \A j \in 1..(i - 1) : str[j] # c

\* str.split(','): the parts between the commas, in order
RECURSIVE split(_)
split(str) ==
  IF \A i \in 1..Len(str) : str[i] # ","
    THEN <<str>>
    ELSE LET i == IndexOf(str, ",")
         IN <<SubSeq(str, 1, i - 1)>> \o split(SubSeq(str, i + 1, Len(str)))

DigitValue(c) == IF c = "1" THEN 1 ELSE 2
RECURSIVE Decimal(_)
Decimal(str) ==
  IF str = <<>> THEN 0
  ELSE Decimal(SubSeq(str, 1, Len(str) - 1)) * 10 + DigitValue(str[Len(str)])

\* +str: the empty string is 0, a string of digits its value, anything else NaN
ToNumber(str) ==
  IF \A i \in 1..Len(str) : str[i] \in {"1", "2"} THEN Num(Decimal(str)) ELSE NaN

\* the viewportOption computed from a truthy argv.viewport
viewportOption(viewport) ==
  LET viewportDimensions == split(viewport.str)
      viewportWidth == ToNumber(viewportDimensions[1])
      \* +undefined is NaN
      viewportHeight == IF Len(viewportDimensions) >= 2
                          THEN ToNumber(viewportDimensions[2]) ELSE NaN
  IN IF viewportWidth.nan \/ viewportHeight.nan
       THEN EmptyObject
       ELSE Dimensions(viewportWidth.n, viewportHeight.n)

\* the flag's value taken whole, the split forgotten
listOption_noSplit(flag) == IF Truthy(flag) THEN <<flag.str>> ELSE <<>>

\* argv.x ? argv.x.split(',') : []
listOption(flag) == IF Truthy(flag) THEN split(flag.str) ELSE <<>>

\* check looking at the version flag only
check_versionOnly ==
  /\ cli.pc = "start"
  /\ cli' = [cli EXCEPT !.pc = IF cli.argv.version THEN "exited" ELSE "parsed"]
  /\ UNCHANGED driverVars

\* the function handed to optimist's check: throwing ends the process
check ==
  /\ cli.pc = "start"
  /\ cli' = [cli EXCEPT !.pc = IF cli.argv.version THEN "exited"
                                ELSE IF cli.argv.help THEN "exited"
                                ELSE "parsed"]
  /\ UNCHANGED driverVars

\* building viewport option
buildViewport ==
  /\ cli.pc = "parsed"
  /\ cli' = [cli EXCEPT !.pc = "viewport",
                        !.viewportOption = IF Truthy(cli.argv.viewport)
                                             THEN viewportOption(cli.argv.viewport)
                                             ELSE @]
  /\ UNCHANGED driverVars

\* new Dalek({...})
newDalek ==
  /\ cli.pc = "viewport"
  /\ cli' = [cli EXCEPT !.pc = "constructed",
                        !.constructed = @ + 1,
                        !.config = [driver |-> listOption(cli.argv.driver),
                                    reporter |-> listOption(cli.argv.reporter),
                                    browser |-> listOption(cli.argv.browser),
                                    viewport |-> IF Truthy(cli.argv.viewport)
                                                   THEN cli.viewportOption
                                                   ELSE EmptyObject]]
  /\ UNCHANGED driverVars

\* dalek.run()
run ==
  /\ cli.pc = "constructed"
  /\ cli' = [cli EXCEPT !.pc = "done", !.runs = @ + 1]
  /\ UNCHANGED driverVars

CliInit ==
  /\ \E argv \in Argvs : cli = CliStart(argv)
  /\ DriverInit

CliNext == check \/ buildViewport \/ newDalek \/ run

CliSpec == CliInit /\ [][CliNext]_vars

(* ------------------------------ claims --------------------------------- *)

\* the public calls made so far whose result callback is fn
CallsOf(fn) == {k \in 1..ncalls : actionQueue[CbIndex(k)].fn = fn}
\* the messages emitted on behalf of call k, in order
MsgsOf(k) == SelectSeq(messages, LAMBDA m : m.call = k)
\* the callback step of call k has been invoked
Invoked(k) ==
  \/ head > CbIndex(k)
  \/ head = CbIndex(k) /\ runner \in {"awaitStep", "rejected"}
\* this step is the runner invoking the callback fn at the head of the queue
Runs(fn) == Ready /\ Current.fn = fn /\ runner' # runner
\* this step is a call of a public method
PublicCall == ncalls' # ncalls

WaitForMsg(k, value) ==
  [msg |-> [key |-> "waitFor", value |-> value, uuid |-> HashOf(k), hash |-> HashOf(k)],
   call |-> k]

\* C1: every waitFor call emits at most one 'waitFor' message, whatever the
\* order of poll results and timer.
C1_AtMostOneMessage ==
  \A k \in CallsOf("_waitForCb") : Len(MsgsOf(k)) <= 1

\* C2: once the timer of a waitFor call has fired, that call issues no
\* further remote execute call.
C2_NoPollAfterTimeout ==
  [][\A k \in Calls : timer[k] = "fired" => polls'[k] = polls[k]]_vars

\* C3: when the first result handed to _waitForCb has userRet exactly true,
\* then for every timeout exactly one 'waitFor' message with empty value is
\* emitted, the timer is cancelled (so no timeout message follows), no remote
\* execute call is issued and the completion signal is resolved.
C3_FirstResultTrue ==
  \A k \in CallsOf("_waitForCb") :
    first[k] = "true" =>
      /\ MsgsOf(k) = <<WaitForMsg(k, "")>>
      /\ timer[k] = "cleared"
      /\ polls[k] = 0
      /\ PollOf(k) \notin inflight
      /\ deferred[k] = "resolved"

C3_Witness ==
  \E k \in CallsOf("_waitForCb") :
    /\ first[k] = "true"
    /\ actionQueue[CbIndex(k)].bound.timeout = 0
    /\ head > CbIndex(k)

\* C4: when no result of a waitFor call has userRet true, nothing is emitted
\* while the timer is pending, and once the timer has fired exactly one
\* message, 'Interrupted by timeout', has been emitted and the completion
\* signal is resolved.
C4_NeverTrue ==
  \A k \in CallsOf("_waitForCb") :
    (first[k] = "notTrue" /\ ~pollTrue[k]) =>
      /\ timer[k] \in {"armed", "fired"}
      /\ timer[k] = "armed" => (MsgsOf(k) = <<>> /\ deferred[k] = "pending")
      /\ timer[k] = "fired" =>
           (MsgsOf(k) = <<WaitForMsg(k, "Interrupted by timeout")>>
              /\ deferred[k] = "resolved")

C4_Witness ==
  \E k \in CallsOf("_waitForCb") :
    /\ first[k] = "notTrue"
    /\ ~pollTrue[k]
    /\ polls[k] >= 2
    /\ timer[k] = "fired"
    /\ head > CbIndex(k)

\* C5: while the runner is executing a queued step, no remote call of a
\* different queued operation is in flight.
C5_Sequential ==
  (head <= Len(actionQueue) /\ runner # "rejected") =>
    \A req \in inflight : req.call = Current.call

\* C6: the executeAsync callback emits exactly one message, carrying value
\* (status 0) or errorMessage = value.message (nonzero status), never both,
\* and resolves its completion signal.
C6_ExecuteAsyncMessage ==
  [][Runs("_setExecuteAsyncCb") =>
       LET k == Current.call
           hash == Current.bound.hash
           d == lastResult
       IN /\ messages' = Append(messages,
               [msg |-> IF d.status = 0
                          THEN [key |-> "executeAsync", value |-> d.value,
                                uuid |-> hash, hash |-> hash]
                          ELSE [key |-> "executeAsync", errorMessage |-> d.value.message,
                                uuid |-> hash, hash |-> hash],
                call |-> k])
          /\ deferred'[k] = "resolved"]_vars

\* C7: no result callback raises, whatever result it is handed.
C7_NothingRaises == thrown = {}

\* C8: execute, executeAsync, asyncScriptTimeout and waitFor append exactly
\* two steps to the tail of the queue, the bound remote call and then the
\* result callback; thenLocal appends exactly one; each returns the object it
\* was called on.
C8_AppendsSteps ==
  [][PublicCall =>
       LET n == Len(actionQueue)
           op == called'[Len(called')].op
           added == SubSeq(actionQueue', n + 1, Len(actionQueue'))
           pairs == [execute |-> <<"execute", "_setExecuteCb">>,
                     executeAsync |-> <<"executeAsync", "_setExecuteAsyncCb">>,
                     asyncScriptTimeout |-> <<"asyncScript", "_setAsyncScriptTimeoutCb">>,
                     waitFor |-> <<"execute", "_waitForCb">>]
       IN /\ SubSeq(actionQueue', 1, n) = actionQueue
          /\ returned' = Driver
          /\ IF op = "thenLocal"
               THEN /\ Len(added) = 1
                    /\ added[1].kind = "cb"
                    /\ added[1].fn = "_setThenLocalCb"
               ELSE /\ op \in DOMAIN pairs
                    /\ Len(added) = 2
                    /\ added[1].kind = "remote"
                    /\ added[2].kind = "cb"
                    /\ <<added[1].fn, added[2].fn>> = pairs[op]
                    /\ added[1].call = added[2].call]_vars

C8_Witness ==
  /\ called # <<>>
  /\ called[Len(called)].op = "thenLocal"
  /\ returned = Driver
  /\ Len(actionQueue) = 3
  /\ actionQueue[2].fn = "_waitForCb"

\* C9: a public call leaves the queued steps as they were, performs no remote
\* call, starts no timer, invokes no user function and emits no message.
C9_FireAndForget ==
  [][PublicCall =>
       /\ SubSeq(actionQueue', 1, Len(actionQueue)) = actionQueue
       /\ UNCHANGED <<inflight, polls, timer, timeoutId, funcCalls, doneCalls, held,
                      messages, deferred, thrown, head, runner, lastResult>>]_vars

C9_Witness ==
  /\ ncalls >= 2
  /\ CallsOf("_setExecuteAsyncCb") # {}
  /\ Len(messages) = 1
  /\ inflight = {}
  /\ head <= Len(actionQueue)

\* C10: the thenLocal step invokes the user function exactly once, its
\* completion signal is resolved if and only if the user function has called
\* the completion callback, and the queue moves past the step only then.
C10_ThenLocal ==
  \A k \in CallsOf("_setThenLocalCb") :
    /\ funcCalls[k] = (IF Invoked(k) THEN 1 ELSE 0)
    /\ deferred[k] = "resolved" <=> doneCalls[k] >= 1
    /\ head > CbIndex(k) => doneCalls[k] >= 1
    /\ doneCalls[k] >= 1 => funcCalls[k] = 1

C10_Witness ==
  \E k \in CallsOf("_setThenLocalCb") :
    /\ actionQueue[CbIndex(k)].bound.func = "keepsCallback"
    /\ doneCalls[k] = 1
    /\ head > CbIndex(k)

IsNumber(str) == str # <<>> /\ \A i \in 1..Len(str) : str[i] \in {"1", "2"}

\* C12: the viewport configuration is {width: w, height: h} when the flag is
\* "<w>,<h>" with both components numbers, and {} otherwise: a missing or
\* empty component, a component that is no number, an absent flag.
C12_Viewport ==
  cli.pc \in {"constructed", "done"} =>
    LET flag == cli.argv.viewport
        parts == split(flag.str)
    IN cli.config.viewport =
         IF flag.given /\ Len(parts) >= 2 /\ IsNumber(parts[1]) /\ IsNumber(parts[2])
           THEN Dimensions(Decimal(parts[1]), Decimal(parts[2]))
           ELSE EmptyObject

RECURSIVE Join(_)
Join(parts) ==
  IF Len(parts) = 1 THEN parts[1]
  ELSE parts[1] \o <<",">> \o Join(Tail(parts))

\* C13: for the driver, reporter and browser flags a comma-separated value
\* yields its parts in their order (joined by commas they give the value
\* back, and no part holds a comma); a flag not given, or given empty, yields
\* the empty sequence.
C13_Lists ==
  cli.pc \in {"constructed", "done"} =>
    \A f \in {"driver", "reporter", "browser"} :
      LET flag == cli.argv[f]
          parts == cli.config[f]
      IN IF Truthy(flag)
           THEN /\ parts # <<>>
                /\ Join(parts) = flag.str
                /\ \A i \in 1..Len(parts) : \A j \in 1..Len(parts[i]) : parts[i][j] # ","
           ELSE parts = <<>>

C13_Witness ==
  /\ cli.pc = "done"
  /\ cli.config.driver = << <<"a">>, <<"b">> >>
  /\ cli.config.reporter = << <<"b">>, <<"a">> >>
  /\ cli.config.browser = <<>>

\* C14: every message emitted has uuid = hash = the correlation id passed to
\* the public call whose step emitted it, and its key is that method's name.
C14_Correlation ==
  \A i \in 1..Len(messages) :
    LET m == messages[i].msg
        c == called[messages[i].call]
    IN /\ m.uuid = m.hash
       /\ m.hash = c.hash
       /\ m.key = c.op

C14_Witness ==
  /\ Len(messages) >= 2
  /\ messages[1].msg.key = "executeAsync"
  /\ messages[2].msg.key = "waitFor"
  /\ messages[1].msg.hash # messages[2].msg.hash
  /\ messages[1].call = 1
  /\ messages[2].call = 2
  /\ messages[2].msg.value = "Interrupted by timeout"

\* once _waitForCb has been handed its first result, its completion signal is
\* eventually resolved, whatever the results are and even if a poll is never
\* answered
SignalResolves ==
  \A k \in Calls : (first[k] # "none") ~> (deferred[k] = "resolved")

\* C15: once _waitForCb has been handed its first result, its completion
\* signal is eventually resolved, given that the timer fires, whatever the
\* script returns and even if a poll is never answered, and the queue moves
\* past the step.
C15_WaitForCompletes ==
  \A k \in Calls :
    (first[k] # "none") ~>
       (deferred[k] = "resolved" /\ k <= ncalls /\ head > CbIndex(k))

\* this step is the checker of call k being handed a poll's result
CheckerStep(k) ==
  /\ PollOf(k) \in inflight
  /\ polls'[k] # polls[k] \/ PollOf(k) \notin inflight'

\* C16: a re-issued poll answering userRet true before the timer fires makes
\* the checker emit one 'waitFor' message with empty value, cancel the timer
\* (no timeout message ever follows), resolve the completion signal and issue
\* no further remote call; a result whose userRet is not exactly true (false,
\* truthy non-boolean, absent) makes it issue exactly one new remote call, and
\* nothing else.
C16_Checker ==
  /\ [][\A k \in Calls : CheckerStep(k) =>
          IF pollTrue'[k]
            THEN /\ polls'[k] = polls[k]
                 /\ PollOf(k) \notin inflight'
                 /\ deferred'[k] = "resolved"
                 /\ timer[k] = "armed" =>
                      /\ messages' = Append(messages, WaitForMsg(k, ""))
                      /\ timer'[k] = "cleared"
            ELSE IF k \in thrown'
              THEN TRUE
              ELSE /\ polls'[k] = polls[k] + 1
                   /\ PollOf(k) \in inflight'
                   /\ UNCHANGED <<messages, timer, deferred>>]_vars
  /\ [](\A k \in Calls :
          (pollTrue[k] /\ timer[k] = "cleared") =>
             /\ MsgsOf(k) = <<WaitForMsg(k, "")>>
             /\ PollOf(k) \notin inflight
             /\ deferred[k] = "resolved")

C16_Witness ==
  \E k \in CallsOf("_waitForCb") :
    /\ first[k] = "notTrue"
    /\ pollTrue[k]
    /\ timer[k] = "cleared"
    /\ polls[k] >= 2
    /\ head > CbIndex(k)

\* C17: messages are emitted in the order their operations were enqueued.
C17_MessageOrder ==
  \A i, j \in 1..Len(messages) : i < j => messages[i].call <= messages[j].call

\* C18: the execute callback emits exactly one 'execute' message whose value
\* is the result's value, whatever the status, and never an errorMessage; the
\* asyncScriptTimeout callback emits exactly one 'asyncScriptTimeout' message
\* with empty value; the completion signal is resolved with the message
\* emitted.
C18_ExecuteAndTimeoutMessages ==
  /\ [][/\ Runs("_setExecuteCb") =>
             LET k == Current.call
                 hash == Current.bound.hash
             IN /\ messages' = Append(messages,
                     [msg |-> [key |-> "execute", value |-> lastResult.value,
                               uuid |-> hash, hash |-> hash],
                      call |-> k])
                /\ deferred[k] = "none"
                /\ deferred'[k] = "resolved"
        /\ Runs("_setAsyncScriptTimeoutCb") =>
             LET k == Current.call
                 hash == Current.bound.hash
             IN /\ messages' = Append(messages,
                     [msg |-> [key |-> "asyncScriptTimeout", value |-> "",
                               uuid |-> hash, hash |-> hash],
                      call |-> k])
                /\ deferred[k] = "none"
                /\ deferred'[k] = "resolved"]_vars
  /\ [](\A k \in CallsOf("_setExecuteCb") \cup CallsOf("_setAsyncScriptTimeoutCb") :
          /\ Len(MsgsOf(k)) = (IF Invoked(k) THEN 1 ELSE 0)
          /\ deferred[k] = "resolved" <=> Len(MsgsOf(k)) = 1)

C18_Witness ==
  \E k \in CallsOf("_setExecuteCb"), l \in CallsOf("_setAsyncScriptTimeoutCb") :
    /\ Len(MsgsOf(k)) = 1
    /\ Len(MsgsOf(l)) = 1
    /\ \E i \in 1..Len(messages) :
         /\ messages[i].call = k
         /\ messages[i].msg.value.type = "null"

====
